---- MODULE Spec2Model ----
(***************************************************************************)
(* Single-elimination bracket engine of the tournament manager:            *)
(* bracket construction, seeding, match resolution, round finalization     *)
(* and wild-card backfill (tournamentService, src/src/App.tsx:464-1216),   *)
(* driven by the operations of the persistence layer                       *)
(* (src/src/services/db.ts:84-471).                                        *)
(*                                                                         *)
(* A participant is identified by its id (1..n); 0 stands for null.  A     *)
(* participant's name is modelled by its rank in the collation order used  *)
(* by String.localeCompare, which is all the engine ever asks of a name.   *)
(***************************************************************************)
EXTENDS Integers, Sequences, FiniteSets, TLC

VARIABLES tournament, op, plays, clients

vars == <<tournament, op, plays, clients>>

(* ---- bounds ---------------------------------------------------------- *)
MaxN == 5
MaxScore == 2
MaxGP == 1
MaxPlays == 2
MaxPlayScore == 1
MaxRoster == 4

NoOne == 0

ScoringModes == {"higher_score", "lower_score", "best_of"}
SeedingModes == {"random", "seeded"}

(* collation rank of the name given to participant id (names are unique) *)
NameOf(id) == (id * 4) % 11

(* ---- small helpers ---------------------------------------------------- *)
RECURSIVE Pow2(_)
Pow2(k) == IF k <= 0 THEN 1 ELSE 2 * Pow2(k - 1)

RECURSIVE CeilLog2From(_, _)
CeilLog2From(n, r) == IF Pow2(r) >= n THEN r ELSE CeilLog2From(n, r + 1)

(* Math.ceil(Math.log2(n)) for n >= 1 *)
CeilLog2(n) == CeilLog2From(n, 0)

(* Math.ceil(position / 2) *)
CeilHalf(p) == (p + 1) \div 2

Range(s) == {s[i] : i \in DOMAIN s}

(* ---- Bracket Builder -------------------------------------------------- *)
NewMatch(round, position) ==
  [round |-> round, position |-> position,
   participant1 |-> NoOne, participant2 |-> NoOne,
   participant1Score |-> 0, participant2Score |-> 0,
   winner |-> NoOne,
   wildCardParticipant1 |-> FALSE, wildCardParticipant2 |-> FALSE]

RECURSIVE GenerateRounds(_, _)
GenerateRounds(round, rounds) ==
  IF round > rounds THEN <<>>
  ELSE [p \in 1..Pow2(rounds - round) |-> NewMatch(round, p)]
       \o GenerateRounds(round + 1, rounds)

(* variant: the rounds counted for one participant more *)
generateMatchStructure_OneMore(participantCount) ==
  IF participantCount < 2 THEN <<>>
  ELSE GenerateRounds(1, CeilLog2(participantCount + 1))

generateMatchStructure(participantCount) ==
  IF participantCount < 2 THEN <<>>
  ELSE GenerateRounds(1, CeilLog2(participantCount))

(* indexes (in array order) of the matches of a round *)
RECURSIVE FilterIdx(_, _, _)
FilterIdx(matches, round, i) ==
  IF i > Len(matches) THEN <<>>
  ELSE (IF matches[i].round = round THEN <<i>> ELSE <<>>)
       \o FilterIdx(matches, round, i + 1)

RoundIdx(matches, round) == FilterIdx(matches, round, 1)

(* ---- Seeder ----------------------------------------------------------- *)
Swap(arr, a, b) == [arr EXCEPT ![a] = arr[b], ![b] = arr[a]]

(* Fisher-Yates: i runs from length-1 down to 1 (0-based), js[i] is the   *)
(* value of Math.floor(Math.random() * (i + 1)) drawn at step i           *)
RECURSIVE ShuffleFrom(_, _, _)
ShuffleFrom(arr, i, js) ==
  IF i < 1 THEN arr
  ELSE ShuffleFrom(Swap(arr, i + 1, js[i] + 1), i - 1, js)

shuffleArray(array, js) == ShuffleFrom(array, Len(array) - 1, js)

(* every sequence of draws the random generator can produce *)
AllDraws(n) == {js \in [1..(n - 1) -> 0..(n - 1)] : \A i \in 1..(n - 1) : js[i] <= i}

(* variant: the lowest gamePoints first *)
SeedBefore_Ascending(a, b) ==
  IF a.gamePoints # b.gamePoints THEN a.gamePoints < b.gamePoints
  ELSE a.name < b.name

(* comparator of getSeededParticipants: a sorts before b *)
SeedBefore(a, b) ==
  IF a.gamePoints # b.gamePoints THEN a.gamePoints > b.gamePoints
  ELSE a.name < b.name

RECURSIVE InsertSeeded(_, _)
InsertSeeded(sorted, p) ==
  IF sorted = <<>> THEN <<p>>
  ELSE IF SeedBefore(p, Head(sorted)) THEN <<p>> \o sorted
       ELSE <<Head(sorted)>> \o InsertSeeded(Tail(sorted), p)

RECURSIVE SortSeeded(_, _)
SortSeeded(participants, i) ==
  IF i > Len(participants) THEN <<>>
  ELSE InsertSeeded(SortSeeded(participants, i + 1), participants[i])

getSeededParticipants(participants) == SortSeeded(participants, 1)

(* variant: the complement of seed s taken as bracketSize - s *)
RECURSIVE generateBracketSeedPositions_OffByOne(_)
generateBracketSeedPositions_OffByOne(bracketSize) ==
  IF bracketSize <= 2 THEN <<0, 1>>
  ELSE LET halfSize == bracketSize \div 2
           upperHalf == generateBracketSeedPositions_OffByOne(halfSize)
       IN [k \in 1..bracketSize |->
             IF k % 2 = 1 THEN upperHalf[(k + 1) \div 2]
             ELSE bracketSize - upperHalf[k \div 2]]

RECURSIVE generateBracketSeedPositions(_)
generateBracketSeedPositions(bracketSize) ==
  IF bracketSize <= 2 THEN <<0, 1>>
  ELSE LET halfSize == bracketSize \div 2
           upperHalf == generateBracketSeedPositions(halfSize)
       IN [k \in 1..bracketSize |->
             IF k % 2 = 1 THEN upperHalf[(k + 1) \div 2]
             ELSE bracketSize - 1 - upperHalf[k \div 2]]

(* matches: the whole array, of which the first matchCount are round 1 *)
assignSeededParticipants(matches, matchCount, seededParticipants) ==
  LET bracketSize == matchCount * 2
      seedPositions == generateBracketSeedPositions(bracketSize)
      count == Len(seededParticipants)
  IN [i \in 1..Len(matches) |->
        IF i > matchCount THEN matches[i]
        ELSE LET slot1Seed == seedPositions[(i - 1) * 2 + 1]
                 slot2Seed == seedPositions[(i - 1) * 2 + 2]
             IN [matches[i] EXCEPT
                   !.participant1 = IF slot1Seed < count
                                    THEN seededParticipants[slot1Seed + 1].id
                                    ELSE @,
                   !.participant2 = IF slot2Seed < count
                                    THEN seededParticipants[slot2Seed + 1].id
                                    ELSE @]]

(* variant: slot 1 of every match is filled before any slot 2 *)
assignSequential_SlotOneFirst(matches, matchCount, orderedParticipants) ==
  LET count == Len(orderedParticipants)
  IN [i \in 1..Len(matches) |->
        IF i > matchCount THEN matches[i]
        ELSE [matches[i] EXCEPT
                !.participant1 = IF i <= count
                                 THEN orderedParticipants[i].id
                                 ELSE @,
                !.participant2 = IF matchCount + i <= count
                                 THEN orderedParticipants[matchCount + i].id
                                 ELSE @]]

(* the sequential fill of the random branch *)
assignSequential(matches, matchCount, orderedParticipants) ==
  LET count == Len(orderedParticipants)
  IN [i \in 1..Len(matches) |->
        IF i > matchCount THEN matches[i]
        ELSE [matches[i] EXCEPT
                !.participant1 = IF 2 * i - 1 <= count
                                 THEN orderedParticipants[2 * i - 1].id
                                 ELSE @,
                !.participant2 = IF 2 * i <= count
                                 THEN orderedParticipants[2 * i].id
                                 ELSE @]]

(* variant: the byes of round 1 are resolved and advanced while seeding *)
assignParticipantsToMatches_AutoAdvance(t, js) ==
  LET participantCount == Len(t.participants)
  IN IF participantCount < 2
     THEN [t EXCEPT !.matches = <<>>, !.totalRounds = 0, !.currentRound = 1]
     ELSE LET totalRounds == CeilLog2(participantCount)
              matches == generateMatchStructure(participantCount)
              firstRoundCount == Len(RoundIdx(matches, 1))
              orderedParticipants ==
                IF t.seedingMode = "seeded"
                THEN getSeededParticipants(t.participants)
                ELSE shuffleArray(t.participants, js)
              assigned ==
                IF t.seedingMode = "seeded" /\ Pow2(totalRounds) > participantCount
                THEN assignSeededParticipants(matches, firstRoundCount, orderedParticipants)
                ELSE assignSequential(matches, firstRoundCount, orderedParticipants)
          IN [t EXCEPT !.matches = [i \in DOMAIN assigned |->
                                      IF (assigned[i].participant1 = NoOne)
                                           # (assigned[i].participant2 = NoOne)
                                      THEN [assigned[i] EXCEPT !.winner =
                                              IF assigned[i].participant1 # NoOne
                                              THEN assigned[i].participant1
                                              ELSE assigned[i].participant2]
                                      ELSE assigned[i]],
                       !.totalRounds = totalRounds,
                       !.currentRound = 1]

assignParticipantsToMatches(t, js) ==
  LET participantCount == Len(t.participants)
  IN IF participantCount < 2
     THEN [t EXCEPT !.matches = <<>>, !.totalRounds = 0, !.currentRound = 1]
     ELSE LET totalRounds == CeilLog2(participantCount)
              matches == generateMatchStructure(participantCount)
              firstRoundCount == Len(RoundIdx(matches, 1))
              orderedParticipants ==
                IF t.seedingMode = "seeded"
                THEN getSeededParticipants(t.participants)
                ELSE shuffleArray(t.participants, js)
              bracketSize == Pow2(totalRounds)
              byeCount == bracketSize - participantCount
              assigned ==
                IF t.seedingMode = "seeded" /\ byeCount > 0
                THEN assignSeededParticipants(matches, firstRoundCount, orderedParticipants)
                ELSE assignSequential(matches, firstRoundCount, orderedParticipants)
          IN [t EXCEPT !.matches = assigned,
                       !.totalRounds = totalRounds,
                       !.currentRound = 1]

(* ---- Match Resolver --------------------------------------------------- *)
HigherWins(match, participant1Score, participant2Score) ==
  IF participant1Score = participant2Score THEN NoOne
  ELSE IF participant1Score > participant2Score THEN match.participant1
       ELSE match.participant2

(* variant: lower_score without the rule for a score of 0 *)
determineWinner_NoZeroRule(t, match, participant1Score, participant2Score) ==
  IF match.participant1 = NoOne \/ match.participant2 = NoOne THEN NoOne
  ELSE CASE t.scoringMode = "higher_score" ->
              HigherWins(match, participant1Score, participant2Score)
         [] t.scoringMode = "lower_score" ->
              IF participant1Score = participant2Score THEN NoOne
              ELSE IF participant1Score < participant2Score THEN match.participant1
              ELSE match.participant2
         [] t.scoringMode = "best_of" ->
              IF t.targetScore = 0
              THEN HigherWins(match, participant1Score, participant2Score)
              ELSE IF participant1Score >= t.targetScore THEN match.participant1
              ELSE IF participant2Score >= t.targetScore THEN match.participant2
              ELSE NoOne
         [] OTHER -> HigherWins(match, participant1Score, participant2Score)

(* variant: lower_score with a score of 0 winning *)
determineWinner_ZeroWins(t, match, participant1Score, participant2Score) ==
  IF match.participant1 = NoOne \/ match.participant2 = NoOne THEN NoOne
  ELSE CASE t.scoringMode = "higher_score" ->
              HigherWins(match, participant1Score, participant2Score)
         [] t.scoringMode = "lower_score" ->
              IF participant1Score = participant2Score THEN NoOne
              ELSE IF participant1Score = 0 /\ participant2Score = 0 THEN NoOne
              ELSE IF participant1Score = 0 THEN match.participant1
              ELSE IF participant2Score = 0 THEN match.participant2
              ELSE IF participant1Score < participant2Score THEN match.participant1
              ELSE match.participant2
         [] t.scoringMode = "best_of" ->
              IF t.targetScore = 0
              THEN HigherWins(match, participant1Score, participant2Score)
              ELSE IF participant1Score >= t.targetScore THEN match.participant1
              ELSE IF participant2Score >= t.targetScore THEN match.participant2
              ELSE NoOne
         [] OTHER -> HigherWins(match, participant1Score, participant2Score)

(* variant: best_of won only by a score above the target *)
determineWinner_AboveTarget(t, match, participant1Score, participant2Score) ==
  IF match.participant1 = NoOne \/ match.participant2 = NoOne THEN NoOne
  ELSE CASE t.scoringMode = "higher_score" ->
              HigherWins(match, participant1Score, participant2Score)
         [] t.scoringMode = "lower_score" ->
              IF participant1Score = participant2Score THEN NoOne
              ELSE IF participant1Score = 0 /\ participant2Score = 0 THEN NoOne
              ELSE IF participant1Score = 0 THEN match.participant2
              ELSE IF participant2Score = 0 THEN match.participant1
              ELSE IF participant1Score < participant2Score THEN match.participant1
              ELSE match.participant2
         [] t.scoringMode = "best_of" ->
              IF t.targetScore = 0
              THEN HigherWins(match, participant1Score, participant2Score)
              ELSE IF participant1Score > t.targetScore THEN match.participant1
              ELSE IF participant2Score > t.targetScore THEN match.participant2
              ELSE NoOne
         [] OTHER -> HigherWins(match, participant1Score, participant2Score)

(* variant: best_of won by the higher score when both reach the target *)
determineWinner_HigherReached(t, match, participant1Score, participant2Score) ==
  IF match.participant1 = NoOne \/ match.participant2 = NoOne THEN NoOne
  ELSE CASE t.scoringMode = "higher_score" ->
              HigherWins(match, participant1Score, participant2Score)
         [] t.scoringMode = "lower_score" ->
              IF participant1Score = participant2Score THEN NoOne
              ELSE IF participant1Score = 0 /\ participant2Score = 0 THEN NoOne
              ELSE IF participant1Score = 0 THEN match.participant2
              ELSE IF participant2Score = 0 THEN match.participant1
              ELSE IF participant1Score < participant2Score THEN match.participant1
              ELSE match.participant2
         [] t.scoringMode = "best_of" ->
              IF t.targetScore = 0
              THEN HigherWins(match, participant1Score, participant2Score)
              ELSE IF participant1Score >= t.targetScore
                      /\ participant1Score >= participant2Score THEN match.participant1
              ELSE IF participant2Score >= t.targetScore THEN match.participant2
              ELSE NoOne
         [] OTHER -> HigherWins(match, participant1Score, participant2Score)

(* variant: the occupancy of the two slots is not looked at *)
determineWinner_NoOccupancyCheck(t, match, participant1Score, participant2Score) ==
  CASE t.scoringMode = "higher_score" ->
              HigherWins(match, participant1Score, participant2Score)
         [] t.scoringMode = "lower_score" ->
              IF participant1Score = participant2Score THEN NoOne
              ELSE IF participant1Score = 0 /\ participant2Score = 0 THEN NoOne
              ELSE IF participant1Score = 0 THEN match.participant2
              ELSE IF participant2Score = 0 THEN match.participant1
              ELSE IF participant1Score < participant2Score THEN match.participant1
              ELSE match.participant2
         [] t.scoringMode = "best_of" ->
              IF t.targetScore = 0
              THEN HigherWins(match, participant1Score, participant2Score)
              ELSE IF participant1Score >= t.targetScore THEN match.participant1
              ELSE IF participant2Score >= t.targetScore THEN match.participant2
              ELSE NoOne
         [] OTHER -> HigherWins(match, participant1Score, participant2Score)

(* targetScore 0 stands for "no target configured" (undefined is falsy) *)
determineWinner(t, match, participant1Score, participant2Score) ==
  IF match.participant1 = NoOne \/ match.participant2 = NoOne THEN NoOne
  ELSE CASE t.scoringMode = "higher_score" ->
              HigherWins(match, participant1Score, participant2Score)
         [] t.scoringMode = "lower_score" ->
              IF participant1Score = participant2Score THEN NoOne
              ELSE IF participant1Score = 0 /\ participant2Score = 0 THEN NoOne
              ELSE IF participant1Score = 0 THEN match.participant2
              ELSE IF participant2Score = 0 THEN match.participant1
              ELSE IF participant1Score < participant2Score THEN match.participant1
              ELSE match.participant2
         [] t.scoringMode = "best_of" ->
              IF t.targetScore = 0
              THEN HigherWins(match, participant1Score, participant2Score)
              ELSE IF participant1Score >= t.targetScore THEN match.participant1
              ELSE IF participant2Score >= t.targetScore THEN match.participant2
              ELSE NoOne
         [] OTHER -> HigherWins(match, participant1Score, participant2Score)

(* ---- Round Finalizer -------------------------------------------------- *)
HasP1(m) == m.participant1 # NoOne
HasP2(m) == m.participant2 # NoOne
IsFull(m) == HasP1(m) /\ HasP2(m)
IsSingle(m) == (HasP1(m) /\ ~HasP2(m)) \/ (~HasP1(m) /\ HasP2(m))
IsActive(m) == HasP1(m) \/ HasP2(m)

RoundMatches(matches, round) == {i \in DOMAIN matches : matches[i].round = round}

(* index of the next-round match a match feeds, 0 when there is none *)
NextMatchIdx(matches, match) ==
  LET c == {j \in DOMAIN matches :
              /\ matches[j].round = match.round + 1
              /\ matches[j].position = CeilHalf(match.position)}
  IN IF c = {} THEN 0 ELSE CHOOSE j \in c : TRUE

(* variant: odd positions feed slot 2 and even positions slot 1 *)
advanceWinnerToNextRound_SwappedSlots(matches, i, totalRounds) ==
  LET match == matches[i]
      next == NextMatchIdx(matches, match)
  IN IF match.winner = NoOne \/ match.round >= totalRounds THEN matches
     ELSE IF next = 0 THEN matches
     ELSE IF match.position % 2 = 1
          THEN [matches EXCEPT ![next].participant2 = match.winner]
          ELSE [matches EXCEPT ![next].participant1 = match.winner]

advanceWinnerToNextRound(matches, i, totalRounds) ==
  LET match == matches[i]
      next == NextMatchIdx(matches, match)
  IN IF match.winner = NoOne \/ match.round >= totalRounds THEN matches
     ELSE IF next = 0 THEN matches
     ELSE IF match.position % 2 = 1
          THEN [matches EXCEPT ![next].participant1 = match.winner]
          ELSE [matches EXCEPT ![next].participant2 = match.winner]

RECURSIVE ProcessByesLoop(_, _, _, _)
ProcessByesLoop(matches, idxs, k, totalRounds) ==
  IF k > Len(idxs) THEN matches
  ELSE LET i == idxs[k]
           match == matches[i]
       IN IF match.winner # NoOne
          THEN ProcessByesLoop(matches, idxs, k + 1, totalRounds)
          ELSE IF IsSingle(match)
               THEN LET won == [matches EXCEPT ![i].winner =
                                  IF HasP1(match) THEN match.participant1
                                  ELSE match.participant2]
                    IN ProcessByesLoop(advanceWinnerToNextRound(won, i, totalRounds),
                                       idxs, k + 1, totalRounds)
               ELSE ProcessByesLoop(matches, idxs, k + 1, totalRounds)

processRoundByes(matches, round, totalRounds) ==
  ProcessByesLoop(matches, RoundIdx(matches, round), 1, totalRounds)

(* variant: a bye match counts as unfinished until it has a winner *)
isRoundComplete_AllActive(matches, round) ==
  LET activeMatches == {i \in RoundMatches(matches, round) : IsActive(matches[i])}
  IN /\ activeMatches # {}
     /\ \A i \in activeMatches : matches[i].winner # NoOne

isRoundComplete(matches, round) ==
  LET roundMatches == RoundMatches(matches, round)
      playedMatches == {i \in roundMatches : IsFull(matches[i])}
  IN IF playedMatches = {}
     THEN \E i \in roundMatches : IsActive(matches[i])
     ELSE \A i \in playedMatches : matches[i].winner # NoOne

hasNextRoundScores(matches, round) ==
  \E i \in RoundMatches(matches, round + 1) :
     \/ matches[i].winner # NoOne
     \/ matches[i].participant1Score > 0
     \/ matches[i].participant2Score > 0

(* variant: the next round is not looked at *)
canFinalizeRound_NoNextCheck(t, round) ==
  IF round > t.totalRounds THEN FALSE
  ELSE IF ~isRoundComplete(t.matches, round) THEN FALSE
  ELSE TRUE

canFinalizeRound(t, round) ==
  IF round > t.totalRounds THEN FALSE
  ELSE IF ~isRoundComplete(t.matches, round) THEN FALSE
  ELSE IF round < t.totalRounds /\ hasNextRoundScores(t.matches, round) THEN FALSE
  ELSE TRUE

(* variant: the round pointer moves on whichever round is finalized *)
updateCurrentRound_AnyRound(t, round) ==
  LET activeMatches == {i \in RoundMatches(t.matches, round) : IsActive(t.matches[i])}
      allComplete == /\ activeMatches # {}
                     /\ \A i \in activeMatches : t.matches[i].winner # NoOne
  IN IF allComplete /\ round < t.totalRounds
     THEN [t EXCEPT !.currentRound = @ + 1]
     ELSE t

updateCurrentRound(t, round) ==
  LET activeMatches == {i \in RoundMatches(t.matches, round) : IsActive(t.matches[i])}
      allComplete == /\ activeMatches # {}
                     /\ \A i \in activeMatches : t.matches[i].winner # NoOne
  IN IF allComplete /\ t.currentRound = round /\ round < t.totalRounds
     THEN [t EXCEPT !.currentRound = @ + 1]
     ELSE t

clearWildCardsForRound(matches, round) ==
  [i \in DOMAIN matches |->
     LET m == matches[i]
     IN IF m.round = round /\ m.winner = NoOne
        THEN [m EXCEPT
                !.participant1 = IF m.wildCardParticipant1 THEN NoOne ELSE @,
                !.wildCardParticipant1 = FALSE,
                !.participant2 = IF m.wildCardParticipant2 THEN NoOne ELSE @,
                !.wildCardParticipant2 = FALSE]
        ELSE m]

clearNextRoundAssignments(matches, round) ==
  [i \in DOMAIN matches |->
     IF matches[i].round = round
     THEN NewMatch(matches[i].round, matches[i].position)
     ELSE matches[i]]

RECURSIVE AdvanceLoop(_, _, _, _)
AdvanceLoop(matches, idxs, k, totalRounds) ==
  IF k > Len(idxs) THEN matches
  ELSE LET match == matches[idxs[k]]
       IN IF match.winner = NoOne \/ ~IsFull(match)
          THEN AdvanceLoop(matches, idxs, k + 1, totalRounds)
          ELSE AdvanceLoop(advanceWinnerToNextRound(matches, idxs[k], totalRounds),
                           idxs, k + 1, totalRounds)

advanceRoundWinners(t, round) ==
  AdvanceLoop(t.matches, RoundIdx(t.matches, round), 1, t.totalRounds)

(* name of a participant as recorded in the roster *)
ParticipantName(t, id) ==
  LET c == {k \in DOMAIN t.participants : t.participants[k].id = id}
  IN t.participants[CHOOSE k \in c : TRUE].name

(* comparator of getRoundLosers: a sorts before b *)
LoserBefore(a, b) ==
  IF a.score # b.score THEN a.score > b.score
  ELSE a.name < b.name

RECURSIVE InsertLoser(_, _)
InsertLoser(sorted, l) ==
  IF sorted = <<>> THEN <<l>>
  ELSE IF LoserBefore(l, Head(sorted)) THEN <<l>> \o sorted
       ELSE <<Head(sorted)>> \o InsertLoser(Tail(sorted), l)

RECURSIVE SortLosers(_, _)
SortLosers(ls, i) ==
  IF i > Len(ls) THEN <<>>
  ELSE InsertLoser(SortLosers(ls, i + 1), ls[i])

RECURSIVE CollectLosers(_, _, _)
CollectLosers(t, idxs, k) ==
  IF k > Len(idxs) THEN <<>>
  ELSE LET m == t.matches[idxs[k]]
           winnerIsP1 == m.winner = m.participant1
           loser == IF winnerIsP1 THEN m.participant2 ELSE m.participant1
       IN (IF IsFull(m) /\ m.winner # NoOne
           THEN <<[participant |-> loser,
                   name |-> ParticipantName(t, loser),
                   score |-> IF winnerIsP1 THEN m.participant2Score
                             ELSE m.participant1Score,
                   matchId |-> idxs[k]]>>
           ELSE <<>>)
          \o CollectLosers(t, idxs, k + 1)

(* variant: the winner of each decided match is listed, not its loser *)
getRoundLosers_Winners(t, round) ==
  LET ls == SortLosers(CollectLosers(t, RoundIdx(t.matches, round), 1), 1)
  IN [k \in DOMAIN ls |->
        [ls[k] EXCEPT !.participant = t.matches[ls[k].matchId].winner]]

getRoundLosers(t, round) ==
  SortLosers(CollectLosers(t, RoundIdx(t.matches, round), 1), 1)

(* losers.find(loser => !usedLosers.has(loser.participant.id)), 0 if none *)
RECURSIVE FindCandidate(_, _, _)
FindCandidate(losers, usedLosers, k) ==
  IF k > Len(losers) THEN 0
  ELSE IF losers[k].participant \notin usedLosers THEN k
       ELSE FindCandidate(losers, usedLosers, k + 1)

(* variant: the flag of slot 1 is raised whichever slot is filled *)
RECURSIVE FillLoop_WrongFlag(_, _, _, _, _)
FillLoop_WrongFlag(matches, idxs, k, losers, usedLosers) ==
  IF k > Len(idxs) THEN matches
  ELSE LET i == idxs[k]
           match == matches[i]
           c == FindCandidate(losers, usedLosers, 1)
       IN IF match.winner # NoOne \/ ~IsSingle(match)
          THEN FillLoop_WrongFlag(matches, idxs, k + 1, losers, usedLosers)
          ELSE IF c = 0 THEN matches
          ELSE LET filled ==
                     IF HasP1(match)
                     THEN [matches EXCEPT ![i].participant2 = losers[c].participant,
                                          ![i].wildCardParticipant1 = TRUE]
                     ELSE [matches EXCEPT ![i].participant1 = losers[c].participant,
                                          ![i].wildCardParticipant1 = TRUE]
               IN FillLoop_WrongFlag(filled, idxs, k + 1, losers,
                                     usedLosers \cup {losers[c].participant})

RECURSIVE FillLoop(_, _, _, _, _)
FillLoop(matches, idxs, k, losers, usedLosers) ==
  IF k > Len(idxs) THEN matches
  ELSE LET i == idxs[k]
           match == matches[i]
           c == FindCandidate(losers, usedLosers, 1)
       IN IF match.winner # NoOne \/ ~IsSingle(match)
          THEN FillLoop(matches, idxs, k + 1, losers, usedLosers)
          ELSE IF c = 0 THEN matches
          ELSE LET filled ==
                     IF HasP1(match)
                     THEN [matches EXCEPT ![i].participant2 = losers[c].participant,
                                          ![i].wildCardParticipant2 = TRUE]
                     ELSE [matches EXCEPT ![i].participant1 = losers[c].participant,
                                          ![i].wildCardParticipant1 = TRUE]
               IN FillLoop(filled, idxs, k + 1, losers,
                           usedLosers \cup {losers[c].participant})

(* variant: completeness is asked of the round being filled *)
fillByeMatchesWithWildCards_NextRound(t, round) ==
  IF \A i \in RoundMatches(t.matches, round) : ~IsActive(t.matches[i]) THEN t
  ELSE IF ~isRoundComplete(t.matches, round + 1) THEN t
  ELSE [t EXCEPT !.matches =
          FillLoop(t.matches, RoundIdx(t.matches, round + 1), 1,
                   getRoundLosers(t, round), {})]

(* the call with an explicit round: startRound = endRound = round *)
fillByeMatchesWithWildCards(t, round) ==
  IF \A i \in RoundMatches(t.matches, round) : ~IsActive(t.matches[i]) THEN t
  ELSE IF ~isRoundComplete(t.matches, round) THEN t
  ELSE [t EXCEPT !.matches =
          FillLoop(t.matches, RoundIdx(t.matches, round + 1), 1,
                   getRoundLosers(t, round), {})]

InSeq(s, x) == \E k \in DOMAIN s : s[k] = x

(* variant: the next round is cleared before the round is checked *)
finalizeRoundIfComplete_ClearFirst(t, round) ==
  LET t0 == [t EXCEPT !.matches = clearNextRoundAssignments(@, round + 1)]
  IN IF ~canFinalizeRound(t0, round) THEN [t |-> t0, ret |-> FALSE]
     ELSE LET t2 == [t0 EXCEPT !.matches = advanceRoundWinners(t0, round)]
              t3 == [t2 EXCEPT !.matches = processRoundByes(@, round, t2.totalRounds)]
              t5 == fillByeMatchesWithWildCards(t3, round)
              t6 == updateCurrentRound(t5, round)
              advanced == IF round < t.totalRounds THEN t6 ELSE t
          IN [t |-> [advanced EXCEPT !.finalizedRounds =
                       IF InSeq(@, round) THEN @ ELSE Append(@, round)],
              ret |-> TRUE]

(* variant: the round is recorded without looking whether it already is *)
finalizeRoundIfComplete_PushAlways(t, round) ==
  IF ~canFinalizeRound(t, round) THEN [t |-> t, ret |-> FALSE]
  ELSE LET nextRound == round + 1
           t1 == [t EXCEPT !.matches = clearNextRoundAssignments(@, nextRound)]
           t2 == [t1 EXCEPT !.matches = advanceRoundWinners(t1, round)]
           t3 == [t2 EXCEPT !.matches = processRoundByes(@, round, t2.totalRounds)]
           t4 == [t3 EXCEPT !.matches = clearWildCardsForRound(@, nextRound)]
           t5 == fillByeMatchesWithWildCards(t4, round)
           t6 == updateCurrentRound(t5, round)
           advanced == IF round < t.totalRounds THEN t6 ELSE t
       IN [t |-> [advanced EXCEPT !.finalizedRounds = Append(@, round)],
           ret |-> TRUE]

(* returns the tournament after the call and the boolean the call returns *)
finalizeRoundIfComplete(t, round) ==
  IF ~canFinalizeRound(t, round) THEN [t |-> t, ret |-> FALSE]
  ELSE LET nextRound == round + 1
           t1 == [t EXCEPT !.matches = clearNextRoundAssignments(@, nextRound)]
           t2 == [t1 EXCEPT !.matches = advanceRoundWinners(t1, round)]
           t3 == [t2 EXCEPT !.matches = processRoundByes(@, round, t2.totalRounds)]
           t4 == [t3 EXCEPT !.matches = clearWildCardsForRound(@, nextRound)]
           t5 == fillByeMatchesWithWildCards(t4, round)
           t6 == updateCurrentRound(t5, round)
           advanced == IF round < t.totalRounds THEN t6 ELSE t
       IN [t |-> [advanced EXCEPT !.finalizedRounds =
                    IF InSeq(@, round) THEN @ ELSE Append(@, round)],
           ret |-> TRUE]

(* ---- Tournament Aggregate and the operations of the store layer ------- *)
NewParticipant(id, gamePoints) ==
  [id |-> id, name |-> NameOf(id), gamePoints |-> gamePoints]

(* createTournament followed by one addParticipant per entrant; gp gives   *)
(* each entrant's gamePoints (0 when the roster was built by addParticipant) *)
NewTournament(n, scoringMode, targetScore, seedingMode, gp) ==
  [scoringMode |-> scoringMode,
   targetScore |-> targetScore,
   seedingMode |-> seedingMode,
   isStarted |-> FALSE,
   participants |-> [k \in 1..n |-> NewParticipant(k, gp[k])],
   matches |-> <<>>,
   currentRound |-> 1,
   totalRounds |-> 0,
   finalizedRounds |-> <<>>]

(* the last request served: its name, its round argument (0 if none), the  *)
(* value finalizeRoundIfComplete returned, whether a PUT reached the store *)
Request(name, round, ret, wrote) ==
  [name |-> name, round |-> round, ret |-> ret, wrote |-> wrote]

TargetScores(scoringMode) ==
  IF scoringMode = "best_of" THEN {MaxScore} ELSE {0}

(* the draws used when a started tournament is played on: no swap at all, *)
(* or every element swapped with the first                                 *)
SomeDraws(n) == {[i \in 1..(n - 1) |-> i], [i \in 1..(n - 1) |-> 0]}

Init ==
  /\ \E n \in 0..MaxN, sm \in ScoringModes, sd \in SeedingModes :
       \E ts \in TargetScores(sm) :
          tournament = NewTournament(n, sm, ts, sd, [k \in 1..n |-> 0])
  /\ op = Request("createTournament", 0, FALSE, TRUE)
  /\ plays = 0
  /\ clients = <<>>

startTournament(js) ==
  IF tournament.isStarted \/ Len(tournament.participants) < 2
  THEN /\ op' = Request("startTournament", 0, FALSE, FALSE)
       /\ UNCHANGED <<tournament, plays, clients>>
  ELSE /\ tournament' = [assignParticipantsToMatches(tournament, js)
                           EXCEPT !.isStarted = TRUE]
       /\ op' = Request("startTournament", 0, TRUE, TRUE)
       /\ plays' = 0
       /\ UNCHANGED clients

StartTournament ==
  \E js \in SomeDraws(Len(tournament.participants)) : startTournament(js)

(* scoring as the engine is driven: the two scores are stored and the    *)
(* winner is whatever determineWinner returns                              *)
playMatch(t, i, p1Score, p2Score) ==
  [t EXCEPT !.matches[i].participant1Score = p1Score,
            !.matches[i].participant2Score = p2Score,
            !.matches[i].winner = determineWinner(t, t.matches[i], p1Score, p2Score)]

(* score entry is offered only for a match with both participants *)
PlayMatch ==
  \E i \in DOMAIN tournament.matches, s1 \in 0..MaxScore, s2 \in 0..MaxScore :
     /\ plays < MaxPlays
     /\ IsFull(tournament.matches[i])
     /\ plays' = plays + 1
     /\ UNCHANGED clients
     /\ tournament' = playMatch(tournament, i, s1, s2)
     /\ op' = Request("playMatch", 0, TRUE, TRUE)

finalizeRound(round) ==
  LET r == finalizeRoundIfComplete(tournament, round)
  IN /\ tournament' = r.t
     /\ op' = Request("finalizeRound", round, r.ret, r.ret)
     /\ UNCHANGED <<plays, clients>>

FinalizeRound ==
  /\ tournament.isStarted
  /\ \E round \in 1..(tournament.totalRounds + 1) : finalizeRound(round)

Next == StartTournament \/ PlayMatch \/ FinalizeRound

Spec == Init /\ [][Next]_vars

(* ---- a whole tournament played round by round ------------------------- *)
(* rounds are taken in turn: the round being played is the first one not  *)
(* yet finalized; its two-occupant matches without a winner are scored     *)
(* decisively one after the other, then it is finalized                    *)
RoundInPlay == Len(tournament.finalizedRounds) + 1

(* match i is still to be played in the round in play and (s1, s2) decides it *)
ToPlay(i) ==
  /\ tournament.matches[i].round = RoundInPlay
  /\ IsFull(tournament.matches[i])
  /\ tournament.matches[i].winner = NoOne

(* the matches of a round are played in the order of the match list *)
Decisive(i, s1, s2) ==
  /\ ToPlay(i)
  /\ \A k \in 1..(i - 1) : ~ToPlay(k)
  /\ determineWinner(tournament, tournament.matches[i], s1, s2) # NoOne

RoundPlayed ==
  /\ tournament.isStarted
  /\ RoundInPlay <= tournament.totalRounds
  /\ \A i \in RoundMatches(tournament.matches, RoundInPlay) :
        IsFull(tournament.matches[i]) => tournament.matches[i].winner # NoOne

PlayRoundMatch ==
  \E i \in DOMAIN tournament.matches :
  \E s1 \in 0..MaxPlayScore, s2 \in 0..MaxPlayScore :
     /\ Decisive(i, s1, s2)
     /\ tournament' = playMatch(tournament, i, s1, s2)
     /\ op' = Request("playMatch", 0, TRUE, TRUE)
     /\ plays' = plays + 1
     /\ UNCHANGED clients

FinalizeRoundInPlay ==
  /\ RoundPlayed
  /\ finalizeRound(RoundInPlay)

InitPlay ==
  /\ \E n \in 0..MaxN, sm \in ScoringModes, sd \in SeedingModes :
       \E ts \in (IF sm = "best_of" THEN {MaxPlayScore} ELSE {0}) :
          tournament = NewTournament(n, sm, ts, sd, [k \in 1..n |-> 0])
  /\ op = Request("createTournament", 0, FALSE, TRUE)
  /\ plays = 0
  /\ clients = <<>>

NextPlay == StartTournament \/ PlayRoundMatch \/ FinalizeRoundInPlay

SpecPlay == InitPlay /\ [][NextPlay]_vars

(* ---- seeding alone, over rosters with arbitrary gamePoints ------------- *)
InitSeed ==
  /\ \E n \in 0..MaxN, sd \in SeedingModes :
       \E gp \in [1..n -> 0..MaxGP] :
          tournament = NewTournament(n, "higher_score", 0, sd, gp)
  /\ op = Request("createTournament", 0, FALSE, TRUE)
  /\ plays = 0
  /\ clients = <<>>

(* the roster is seeded once, from the tournament as created (matches: []) *)
Assign ==
  /\ tournament.matches = <<>>
  /\ \E js \in AllDraws(Len(tournament.participants)) :
        tournament' = assignParticipantsToMatches(tournament, js)
  /\ op' = Request("assignParticipantsToMatches", 0, TRUE, FALSE)
  /\ UNCHANGED <<plays, clients>>

NextSeed == Assign

SpecSeed == InitSeed /\ [][NextSeed]_vars

(* ---- the life of a tournament record in the store --------------------- *)
(* createTournament: no participant, no match, currentRound 1, totalRounds 0 *)
InitDb ==
  /\ \E sm \in ScoringModes, sd \in SeedingModes :
       \E ts \in (IF sm = "best_of" THEN {0, MaxPlayScore} ELSE {0}) :
          tournament = NewTournament(0, sm, ts, sd, <<>>)
  /\ op = Request("createTournament", 0, FALSE, TRUE)
  /\ plays = 0
  /\ clients = <<>>

(* the id given to a new participant: one no participant of the roster   *)
(* has; ids grow with the time of creation, as the roster is ordered       *)
FreshId(participants) ==
  IF participants = <<>> THEN 1 ELSE participants[Len(participants)].id + 1

addParticipant ==
  IF tournament.isStarted
  THEN /\ op' = Request("addParticipant", 0, FALSE, FALSE)
       /\ UNCHANGED <<tournament, plays, clients>>
  ELSE /\ tournament' =
            [tournament EXCEPT !.participants =
               Append(@, NewParticipant(FreshId(tournament.participants), 0))]
       /\ op' = Request("addParticipant", 0, TRUE, TRUE)
       /\ UNCHANGED <<plays, clients>>

AddParticipant ==
  /\ FreshId(tournament.participants) <= MaxRoster
  /\ addParticipant

RECURSIVE WithoutId(_, _)
WithoutId(participants, participantId) ==
  IF participants = <<>> THEN <<>>
  ELSE (IF Head(participants).id # participantId
        THEN <<Head(participants)>> ELSE <<>>)
       \o WithoutId(Tail(participants), participantId)

(* variant: the started flag is not looked at *)
removeParticipant_NoGuard(participantId) ==
  /\ tournament' =
       [tournament EXCEPT
          !.participants = WithoutId(@, participantId),
          !.matches = <<>>,
          !.currentRound = 1,
          !.totalRounds = 0]
  /\ op' = Request("removeParticipant", 0, TRUE, TRUE)
  /\ UNCHANGED <<plays, clients>>

removeParticipant(participantId) ==
  IF tournament.isStarted
  THEN /\ op' = Request("removeParticipant", 0, FALSE, FALSE)
       /\ UNCHANGED <<tournament, plays, clients>>
  ELSE /\ tournament' =
            [tournament EXCEPT
               !.participants = WithoutId(@, participantId),
               !.matches = <<>>,
               !.currentRound = 1,
               !.totalRounds = 0]
       /\ op' = Request("removeParticipant", 0, TRUE, TRUE)
       /\ UNCHANGED <<plays, clients>>

RemoveParticipant ==
  \E participantId \in 1..MaxRoster : removeParticipant(participantId)

updateTournamentSettings(scoringMode, targetScore) ==
  IF tournament.isStarted
  THEN /\ op' = Request("updateTournamentSettings", 0, FALSE, FALSE)
       /\ UNCHANGED <<tournament, plays, clients>>
  ELSE /\ tournament' =
            [tournament EXCEPT
               !.scoringMode = scoringMode,
               !.targetScore = IF scoringMode = "best_of" THEN targetScore ELSE 0]
       /\ op' = Request("updateTournamentSettings", 0, TRUE, TRUE)
       /\ UNCHANGED <<plays, clients>>

UpdateTournamentSettings ==
  \E scoringMode \in ScoringModes, targetScore \in {0, MaxPlayScore} :
     updateTournamentSettings(scoringMode, targetScore)

resetTournament ==
  /\ tournament' =
       [tournament EXCEPT
          !.participants = [k \in DOMAIN @ |-> [@[k] EXCEPT !.gamePoints = 0]],
          !.isStarted = FALSE,
          !.matches = <<>>,
          !.currentRound = 1,
          !.totalRounds = 0,
          !.finalizedRounds = <<>>]
  /\ op' = Request("resetTournament", 0, TRUE, TRUE)
  /\ plays' = 0
  /\ UNCHANGED clients

ResetTournament == resetTournament

(* a score entry on a match with both participants *)
ScoreMatch ==
  \E i \in DOMAIN tournament.matches :
  \E s1 \in 0..MaxPlayScore, s2 \in 0..MaxPlayScore :
     /\ plays < MaxPlays
     /\ IsFull(tournament.matches[i])
     /\ plays' = plays + 1
     /\ UNCHANGED clients
     /\ tournament' = playMatch(tournament, i, s1, s2)
     /\ op' = Request("playMatch", 0, TRUE, TRUE)

NextDb ==
  \/ AddParticipant
  \/ RemoveParticipant
  \/ UpdateTournamentSettings
  \/ StartTournament
  \/ ScoreMatch
  \/ FinalizeRound
  \/ ResetTournament

SpecDb == InitDb /\ [][NextDb]_vars

(* ---- the Match Resolver alone, over every score pair and target ------- *)
(* a small bracket is seeded (with a full match, a bye and an empty match  *)
(* when n = 3) and its matches are scored over and over                    *)
InitResolve ==
  /\ \E n \in 2..3, sm \in ScoringModes :
       \E ts \in (IF sm = "best_of" THEN 0..(MaxScore + 1) ELSE {0}) :
          tournament = NewTournament(n, sm, ts, "random", [k \in 1..n |-> 0])
  /\ op = Request("createTournament", 0, FALSE, TRUE)
  /\ plays = 0
  /\ clients = <<>>

ResolveMatch ==
  /\ \E i \in DOMAIN tournament.matches, s1 \in 0..MaxScore, s2 \in 0..MaxScore :
        tournament' = playMatch(tournament, i, s1, s2)
  /\ op' = Request("determineWinner", 0, TRUE, FALSE)
  /\ UNCHANGED <<plays, clients>>

NextResolve == StartTournament \/ ResolveMatch

SpecResolve == InitResolve /\ [][NextResolve]_vars

(* ---- score entry through the store layer ------------------------------ *)
(* the engine's refresh of the next round after a score entry: scoring     *)
(* only resolves the match and stores the winner, the next round is        *)
(* rebuilt by the Round Finalizer alone                                    *)
refreshPlayInMatches(t, round) == t

(* the gamePoints of the roster after the occupants of a match were given  *)
(* the two scores (slot 1 first, then slot 2)                              *)
WithGamePoints(participants, match, p1Score, p2Score) ==
  [k \in DOMAIN participants |->
     IF match.participant2 # NoOne /\ participants[k].id = match.participant2
     THEN [participants[k] EXCEPT !.gamePoints = p2Score]
     ELSE IF match.participant1 # NoOne /\ participants[k].id = match.participant1
     THEN [participants[k] EXCEPT !.gamePoints = p1Score]
     ELSE participants[k]]

(* the record db.updateMatch writes for the match at index i *)
updateMatch(t, i, p1Score, p2Score) ==
  LET match == t.matches[i]
      scored == [t EXCEPT
                   !.matches[i].participant1Score = p1Score,
                   !.matches[i].participant2Score = p2Score,
                   !.participants = WithGamePoints(@, match, p1Score, p2Score),
                   !.matches[i].winner =
                      determineWinner(t, match, p1Score, p2Score)]
  IN IF /\ match.round < t.totalRounds
        /\ ~match.wildCardParticipant1
        /\ ~match.wildCardParticipant2
     THEN refreshPlayInMatches(scored, match.round)
     ELSE scored

(* a served score entry: the index of the match it named is kept *)
ScoreRequest(match) ==
  [name |-> "updateMatch", round |-> 0, ret |-> TRUE, wrote |-> TRUE,
   match |-> match]

(* a roster is registered, then the tournament is started, scored match by *)
(* match (any match, whatever its occupants), finalized and reset          *)
InitScore ==
  /\ \E n \in 0..MaxRoster, sm \in ScoringModes :
       \E ts \in (IF sm = "best_of" THEN {MaxPlayScore} ELSE {0}) :
          tournament = NewTournament(n, sm, ts, "random", [k \in 1..n |-> 0])
  /\ op = Request("createTournament", 0, FALSE, TRUE)
  /\ plays = 0
  /\ clients = <<>>

(* a start whose shuffle swaps nothing *)
StartAsListed ==
  startTournament([i \in 1..(Len(tournament.participants) - 1) |-> i])

UpdateMatch ==
  \E i \in DOMAIN tournament.matches :
  \E p1Score \in 0..MaxPlayScore, p2Score \in 0..MaxPlayScore :
     /\ plays < MaxPlays
     /\ plays' = plays + 1
     /\ tournament' = updateMatch(tournament, i, p1Score, p2Score)
     /\ op' = ScoreRequest(i)
     /\ UNCHANGED clients

NextScore == StartAsListed \/ UpdateMatch \/ FinalizeRound \/ ResetTournament

SpecScore == InitScore /\ [][NextScore]_vars

(* ---- several clients on one stored record ------------------------------ *)
(* every request of the store layer is a GET of the record followed, after *)
(* the handler has worked on what the GET returned, by a PUT of the whole  *)
(* record; the requests of two clients interleave between the two          *)
Clients == {1, 2}

(* the name a participant is renamed to (no participant has it yet) *)
Renamed(id) == NameOf(id) + 11

(* the record the handler serving client c works on: the one its GET     *)
(* returned                                                                *)
getTournaments(c) == clients[c].read

(* variant: the stored record is kept when the body is not based on it *)
PutItem_Conditional(stored, base, body) == IF stored = base THEN body ELSE stored

(* PUT /tournaments/{id}: the body replaces the stored item, whatever the  *)
(* record the body was built from (base)                                   *)
PutItem(stored, base, body) == body

(* what a handler leaves: the record it built, whether it issued the PUT,  *)
(* whether it threw                                                        *)
Outcome(body, wrote, error) == [body |-> body, wrote |-> wrote, error |-> error]

HasParticipant(t, participantId) ==
  \E k \in DOMAIN t.participants : t.participants[k].id = participantId

addParticipantTo(t, id) ==
  IF t.isStarted THEN Outcome(t, FALSE, FALSE)
  ELSE Outcome([t EXCEPT !.participants = Append(@, NewParticipant(id, 0))],
               TRUE, FALSE)

updateParticipantOf(t, participantId) ==
  IF ~HasParticipant(t, participantId) THEN Outcome(t, FALSE, TRUE)
  ELSE Outcome([t EXCEPT !.participants =
                  [k \in DOMAIN @ |->
                     IF @[k].id = participantId
                     THEN [@[k] EXCEPT !.name = Renamed(participantId)]
                     ELSE @[k]]],
               TRUE, FALSE)

(* variant: the roster is cut whatever the record's state and the record   *)
(* goes back to its state before the start                                 *)
removeParticipantOf_AsReset(t, participantId) ==
  Outcome([t EXCEPT !.participants = WithoutId(@, participantId),
                    !.isStarted = FALSE,
                    !.matches = <<>>,
                    !.currentRound = 1,
                    !.totalRounds = 0],
          TRUE, FALSE)

removeParticipantOf(t, participantId) ==
  IF t.isStarted THEN Outcome(t, FALSE, FALSE)
  ELSE Outcome([t EXCEPT !.participants = WithoutId(@, participantId),
                         !.matches = <<>>,
                         !.currentRound = 1,
                         !.totalRounds = 0],
               TRUE, FALSE)

updateTournamentSettingsOf(t, scoringMode, targetScore) ==
  IF t.isStarted THEN Outcome(t, FALSE, FALSE)
  ELSE Outcome([t EXCEPT !.scoringMode = scoringMode,
                         !.targetScore = IF scoringMode = "best_of"
                                         THEN targetScore ELSE 0],
               TRUE, FALSE)

startTournamentOf(t, js) ==
  IF t.isStarted \/ Len(t.participants) < 2 THEN Outcome(t, FALSE, FALSE)
  ELSE Outcome([assignParticipantsToMatches(t, js) EXCEPT !.isStarted = TRUE],
               TRUE, FALSE)

updateMatchOf(t, i, p1Score, p2Score) ==
  IF i \notin DOMAIN t.matches THEN Outcome(t, FALSE, TRUE)
  ELSE Outcome(updateMatch(t, i, p1Score, p2Score), TRUE, FALSE)

finalizeRoundOf(t, round) ==
  LET r == finalizeRoundIfComplete(t, round)
  IN Outcome(r.t, r.ret, FALSE)

resetTournamentOf(t) ==
  Outcome([t EXCEPT
             !.participants = [k \in DOMAIN @ |-> [@[k] EXCEPT !.gamePoints = 0]],
             !.isStarted = FALSE,
             !.matches = <<>>,
             !.currentRound = 1,
             !.totalRounds = 0,
             !.finalizedRounds = <<>>],
          TRUE, FALSE)

(* a served request of a client: the match and the scores it named (0 if   *)
(* none), whether the PUT was issued, whether the caller got an error      *)
ClientRequest(c, name, out, match, p1Score, p2Score) ==
  [name |-> name, round |-> 0, ret |-> ~out.error, wrote |-> out.wrote,
   client |-> c, error |-> out.error,
   match |-> match, p1Score |-> p1Score, p2Score |-> p2Score]

NoRequest == [name |-> "none", match |-> 0, p1Score |-> 0, p2Score |-> 0, error |-> FALSE]

Idle(last) == [pc |-> "idle", read |-> <<>>, last |-> last]

(* the second half of a request of client c: the PUT, if the handler got   *)
(* that far, and the response                                              *)
Respond(c, name, out, match, p1Score, p2Score) ==
  /\ tournament' = IF out.wrote
                   THEN PutItem(tournament, clients[c].read, out.body)
                   ELSE tournament
  /\ op' = ClientRequest(c, name, out, match, p1Score, p2Score)
  /\ plays' = plays + 1
  /\ clients' = [clients EXCEPT ![c] =
                   Idle([name |-> name, match |-> match, p1Score |-> p1Score,
                         p2Score |-> p2Score, error |-> out.error])]

(* a roster of 2 or 3 is registered and the tournament may have been       *)
(* started already; no request is under way                                *)
InitClients ==
  /\ \E n \in 2..3, sm \in {"higher_score"}, started \in BOOLEAN :
       LET t == NewTournament(n, sm, 0, "random", [k \in 1..n |-> 0])
       IN tournament =
            IF started
            THEN startTournamentOf(t, [i \in 1..(n - 1) |-> i]).body
            ELSE t
  /\ op = Request("createTournament", 0, FALSE, TRUE)
  /\ plays = 0
  /\ clients = [c \in Clients |-> Idle(NoRequest)]

(* the first half of a request: the GET *)
GetTournaments ==
  \E c \in Clients :
     /\ clients[c].pc = "idle"
     /\ plays < MaxPlays
     /\ clients' = [clients EXCEPT ![c].pc = "read", ![c].read = tournament]
     /\ UNCHANGED <<tournament, op, plays>>

AddParticipantBy ==
  \E c \in Clients :
     /\ clients[c].pc = "read"
     /\ FreshId(getTournaments(c).participants) <= MaxRoster
     /\ Respond(c, "addParticipant",
                addParticipantTo(getTournaments(c),
                                 FreshId(getTournaments(c).participants)),
                0, 0, 0)

UpdateParticipantBy ==
  \E c \in Clients, participantId \in 1..MaxRoster :
     /\ clients[c].pc = "read"
     /\ Respond(c, "updateParticipant",
                updateParticipantOf(getTournaments(c), participantId), 0, 0, 0)

RemoveParticipantBy ==
  \E c \in Clients, participantId \in 1..MaxRoster :
     /\ clients[c].pc = "read"
     /\ Respond(c, "removeParticipant",
                removeParticipantOf(getTournaments(c), participantId), 0, 0, 0)

UpdateTournamentSettingsBy ==
  \E c \in Clients, scoringMode \in ScoringModes :
     /\ clients[c].pc = "read"
     /\ Respond(c, "updateTournamentSettings",
                updateTournamentSettingsOf(getTournaments(c), scoringMode,
                                           MaxPlayScore),
                0, 0, 0)

StartTournamentBy ==
  \E c \in Clients :
     /\ clients[c].pc = "read"
     /\ Respond(c, "startTournament",
                startTournamentOf(getTournaments(c),
                   [i \in 1..(Len(getTournaments(c).participants) - 1) |-> i]),
                0, 0, 0)

(* the match is one the caller has seen, in the stored record or in the    *)
(* one just fetched                                                        *)
UpdateMatchBy ==
  \E c \in Clients :
     /\ clients[c].pc = "read"
     /\ \E i \in DOMAIN tournament.matches \cup DOMAIN getTournaments(c).matches :
        \E p1Score \in 0..MaxPlayScore, p2Score \in 0..MaxPlayScore :
           Respond(c, "updateMatch",
                   updateMatchOf(getTournaments(c), i, p1Score, p2Score),
                   i, p1Score, p2Score)

FinalizeRoundBy ==
  \E c \in Clients :
     /\ clients[c].pc = "read"
     /\ getTournaments(c).isStarted
     /\ \E round \in 1..getTournaments(c).totalRounds :
           Respond(c, "finalizeRound",
                   finalizeRoundOf(getTournaments(c), round), 0, 0, 0)

ResetTournamentBy ==
  \E c \in Clients :
     /\ clients[c].pc = "read"
     /\ Respond(c, "resetTournament", resetTournamentOf(getTournaments(c)),
                0, 0, 0)

NextClients ==
  \/ GetTournaments
  \/ AddParticipantBy
  \/ UpdateParticipantBy
  \/ RemoveParticipantBy
  \/ UpdateTournamentSettingsBy
  \/ StartTournamentBy
  \/ UpdateMatchBy
  \/ FinalizeRoundBy
  \/ ResetTournamentBy

SpecClients == InitClients /\ [][NextClients]_vars

(* ======================================================================= *)
(* Properties                                                              *)
(* ======================================================================= *)
Matches == tournament.matches

(* the last request was a finalization of a non-final round that succeeded *)
FinalizedNonFinal ==
  /\ op.name = "finalizeRound"
  /\ op.ret
  /\ op.round < tournament.totalRounds

(* the round-r match feeding the given slot of the match at index j *)
Feeder(j, slot) ==
  LET c == {i \in DOMAIN Matches :
              /\ Matches[i].round = Matches[j].round - 1
              /\ Matches[i].position = 2 * Matches[j].position - (2 - slot)}
  IN CHOOSE i \in c : TRUE

(* the losers of the two-occupant matches of a round *)
LoserSet(round) ==
  {[participant |-> IF Matches[i].winner = Matches[i].participant1
                    THEN Matches[i].participant2 ELSE Matches[i].participant1,
    score |-> IF Matches[i].winner = Matches[i].participant1
              THEN Matches[i].participant2Score ELSE Matches[i].participant1Score,
    name |-> NameOf(IF Matches[i].winner = Matches[i].participant1
                    THEN Matches[i].participant2 ELSE Matches[i].participant1)] :
     i \in {k \in RoundMatches(Matches, round) :
              IsFull(Matches[k]) /\ Matches[k].winner # NoOne}}

(* the wild cards of a round, in match order *)
RECURSIVE WildCardsFrom(_, _)
WildCardsFrom(idxs, k) ==
  IF k > Len(idxs) THEN <<>>
  ELSE LET m == Matches[idxs[k]]
       IN (IF m.wildCardParticipant1 THEN <<m.participant1>> ELSE <<>>)
          \o (IF m.wildCardParticipant2 THEN <<m.participant2>> ELSE <<>>)
          \o WildCardsFrom(idxs, k + 1)

WildCards(round) == WildCardsFrom(RoundIdx(Matches, round), 1)

(* C1: after a successful finalization of a round r < totalRounds, every  *)
(* round-r match with a winner (bye matches included) has that winner in  *)
(* slot 1 of the round r+1 match at ceil(p/2) when p is odd, in slot 2    *)
(* when p is even                                                          *)
C1_WinnersAdvanced ==
  FinalizedNonFinal =>
    \A i \in RoundMatches(Matches, op.round) :
       Matches[i].winner # NoOne =>
         \E j \in RoundMatches(Matches, op.round + 1) :
            /\ Matches[j].position = CeilHalf(Matches[i].position)
            /\ IF Matches[i].position % 2 = 1
               THEN Matches[j].participant1 = Matches[i].winner
               ELSE Matches[j].participant2 = Matches[i].winner

(* C2: finalizing again a round that was just finalized, with no scoring  *)
(* in between, changes nothing in the tournament                           *)
C2_FinalizeIdempotent ==
  [][(/\ op.name = "finalizeRound" /\ op.ret
      /\ op'.name = "finalizeRound" /\ op'.round = op.round)
     => tournament' = tournament]_vars

(* the priority order the backfill is meant to use *)
PriorityBefore(a, b) ==
  IF a.score # b.score
  THEN IF tournament.scoringMode = "lower_score" THEN a.score < b.score
       ELSE a.score > b.score
  ELSE a.name < b.name

(* C3: the k-th wild card of round r+1 (in match order) is the k-th loser *)
(* of round r in priority order: score descending for higher_score and    *)
(* best_of, ascending for lower_score, ties by name ascending             *)
C3_WildCardPriority ==
  FinalizedNonFinal =>
    LET wc == WildCards(op.round + 1)
        L == LoserSet(op.round)
    IN \A k \in DOMAIN wc :
          \E l \in L : /\ l.participant = wc[k]
                       /\ Cardinality({x \in L : PriorityBefore(x, l)}) = k - 1

(* C4: within one finalization pass a wild card is an eliminated          *)
(* participant used once, it sits next to a normally advanced occupant in *)
(* a match without winner, and exactly the backfilled slots are flagged   *)
C4_WildCardPlacement ==
  FinalizedNonFinal =>
    LET wc == WildCards(op.round + 1)
        losers == {l.participant : l \in LoserSet(op.round)}
    IN /\ \A k1, k2 \in DOMAIN wc : k1 # k2 => wc[k1] # wc[k2]
       /\ \A j \in RoundMatches(Matches, op.round + 1) :
            LET m == Matches[j]
            IN /\ ~(m.wildCardParticipant1 /\ m.wildCardParticipant2)
               /\ m.wildCardParticipant1 =>
                    /\ m.participant1 \in losers
                    /\ HasP2(m) /\ m.winner = NoOne
               /\ m.wildCardParticipant2 =>
                    /\ m.participant2 \in losers
                    /\ HasP1(m) /\ m.winner = NoOne
               /\ (HasP1(m) /\ ~m.wildCardParticipant1) =>
                    m.participant1 = Matches[Feeder(j, 1)].winner
               /\ (HasP2(m) /\ ~m.wildCardParticipant2) =>
                    m.participant2 = Matches[Feeder(j, 2)].winner

C4_Witness ==
  /\ FinalizedNonFinal
  /\ Len(WildCards(op.round + 1)) >= 1
  /\ Cardinality(LoserSet(op.round)) >= 2

(* the condition C5 gives for canFinalizeRound *)
C5_Stated(round) ==
  /\ round <= tournament.totalRounds
  /\ \A i \in RoundMatches(Matches, round) :
        IsFull(Matches[i]) => Matches[i].winner # NoOne
  /\ \/ round = tournament.totalRounds
     \/ \A j \in RoundMatches(Matches, round + 1) :
           /\ Matches[j].winner = NoOne
           /\ Matches[j].participant1Score = 0
           /\ Matches[j].participant2Score = 0

(* C5 (as stated): canFinalizeRound(t, r) holds exactly when r <=         *)
(* totalRounds, every two-occupant match of r has a winner, and r is the  *)
(* last round or round r+1 shows no winner and no nonzero score           *)
C5_Original ==
  \A round \in 1..(tournament.totalRounds + 1) :
     canFinalizeRound(tournament, round) <=> C5_Stated(round)

(* C5 (amended): as stated, and moreover round r holds at least one       *)
(* participant                                                             *)
C5_CanFinalize ==
  \A round \in 1..(tournament.totalRounds + 1) :
     canFinalizeRound(tournament, round) <=>
       /\ C5_Stated(round)
       /\ \E i \in RoundMatches(Matches, round) : IsActive(Matches[i])

C5_Witness ==
  \E round \in 1..(tournament.totalRounds - 1) :
     /\ isRoundComplete(Matches, round)
     /\ hasNextRoundScores(Matches, round)
     /\ ~canFinalizeRound(tournament, round)

(* C6: a finalization request made when canFinalizeRound is false returns *)
(* false, leaves the tournament as it was and writes nothing to the store *)
C6_RefusedFinalizeIsNoOp ==
  [][(op'.name = "finalizeRound" /\ ~canFinalizeRound(tournament, op'.round))
     => (~op'.ret /\ ~op'.wrote /\ tournament' = tournament)]_vars

C6_Witness ==
  /\ op.name = "finalizeRound"
  /\ ~op.ret
  /\ op.round <= tournament.totalRounds
  /\ \E i \in DOMAIN Matches : Matches[i].winner # NoOne

(* C7: when every round in turn is scored decisively and then finalized,  *)
(* every finalization succeeds, the play can always go on until the last  *)
(* round is finalized, finalizedRounds is then exactly 1..totalRounds and *)
(* the final match has a winner                                            *)
C7_TournamentCompletes ==
  /\ op.name = "finalizeRound" => op.ret
  /\ tournament.finalizedRounds = [k \in 1..Len(tournament.finalizedRounds) |-> k]
  /\ Len(tournament.finalizedRounds) <= tournament.totalRounds
  /\ (tournament.isStarted /\ RoundInPlay <= tournament.totalRounds) =>
        \/ RoundPlayed
        \/ \E i \in DOMAIN Matches :
           \E s1 \in 0..MaxPlayScore, s2 \in 0..MaxPlayScore :
              Decisive(i, s1, s2)
  /\ (tournament.isStarted /\ RoundInPlay > tournament.totalRounds) =>
        \E i \in RoundMatches(Matches, tournament.totalRounds) :
           Matches[i].winner # NoOne

C7_Witness ==
  /\ tournament.isStarted
  /\ tournament.totalRounds = 3
  /\ Len(tournament.finalizedRounds) = 3
  /\ \E i \in DOMAIN Matches :
        Matches[i].wildCardParticipant1 \/ Matches[i].wildCardParticipant2

(* C8: after a successful finalization of a round r < totalRounds no      *)
(* match of round r+1 has exactly one occupant                             *)
C8_NextRoundPaired ==
  FinalizedNonFinal =>
    \A j \in RoundMatches(Matches, op.round + 1) : ~IsSingle(Matches[j])

C8_Witness ==
  /\ FinalizedNonFinal
  /\ \E j \in RoundMatches(Matches, op.round + 1) :
        Matches[j].wildCardParticipant1 \/ Matches[j].wildCardParticipant2
  /\ \E j \in RoundMatches(Matches, op.round + 1) : ~IsActive(Matches[j])

(* the occupied slots of round 1, as (match, slot) pairs *)
Round1Slots ==
  {<<i, 1>> : i \in {k \in RoundMatches(Matches, 1) : HasP1(Matches[k])}}
  \cup {<<i, 2>> : i \in {k \in RoundMatches(Matches, 1) : HasP2(Matches[k])}}

SlotOccupant(sl) ==
  IF sl[2] = 1 THEN Matches[sl[1]].participant1 ELSE Matches[sl[1]].participant2

Assigned ==
  op.name = "assignParticipantsToMatches" /\ Len(tournament.participants) >= 2

(* C9: seeding puts every participant in exactly one slot of round 1: n   *)
(* slots are occupied and no id occurs twice                               *)
C9_EveryoneSeededOnce ==
  Assigned =>
    /\ Cardinality(Round1Slots) = Len(tournament.participants)
    /\ \A a, b \in Round1Slots : a # b => SlotOccupant(a) # SlotOccupant(b)
    /\ {SlotOccupant(sl) : sl \in Round1Slots}
         = {tournament.participants[k].id : k \in DOMAIN tournament.participants}

C9_Witness ==
  /\ Assigned
  /\ tournament.seedingMode = "seeded"
  /\ Len(tournament.participants) = 5
  /\ \E k \in DOMAIN tournament.participants : tournament.participants[k].gamePoints > 0

(* a ranks strictly above b: more gamePoints, or as many and a name that  *)
(* sorts first                                                             *)
RanksAbove(a, b) ==
  \/ a.gamePoints > b.gamePoints
  \/ a.gamePoints = b.gamePoints /\ a.name < b.name

(* C10: in seeded mode the single-occupant matches of round 1 number      *)
(* bracketSize - n and hold exactly the bracketSize - n top-ranked        *)
(* participants                                                            *)
C10_TopSeedsGetByes ==
  (Assigned /\ tournament.seedingMode = "seeded") =>
    LET n == Len(tournament.participants)
        byeCount == Pow2(CeilLog2(n)) - n
        byes == {i \in RoundMatches(Matches, 1) : IsSingle(Matches[i])}
        holders == {IF HasP1(Matches[i]) THEN Matches[i].participant1
                    ELSE Matches[i].participant2 : i \in byes}
        P == Range(tournament.participants)
        top == {p.id : p \in {q \in P :
                  Cardinality({x \in P : RanksAbove(x, q)}) < byeCount}}
    IN /\ Cardinality(byes) = byeCount
       /\ holders = top

C10_Witness ==
  /\ Assigned
  /\ tournament.seedingMode = "seeded"
  /\ Len(tournament.participants) = 5
  /\ \E a, b \in DOMAIN tournament.participants :
        tournament.participants[a].gamePoints # tournament.participants[b].gamePoints
  /\ Cardinality({i \in RoundMatches(Matches, 1) : IsSingle(Matches[i])}) = 3

(* 0-indexed rank of a participant in the ranking order *)
RankOf(p) ==
  Cardinality({x \in Range(tournament.participants) : RanksAbove(x, p)})

(* the id of the participant ranked s, NoOne when s >= n *)
Ranked(s) ==
  IF s >= Len(tournament.participants) THEN NoOne
  ELSE (CHOOSE p \in Range(tournament.participants) : RankOf(p) = s).id

(* the least power of two that is >= n, and its exponent *)
RoundsFor(n) == CHOOSE k \in 0..(n + 1) : Pow2(k) >= n /\ (k = 0 \/ Pow2(k - 1) < n)
BracketSizeFor(n) == Pow2(RoundsFor(n))

(* the round-1 match (its index) holding the given participant id *)
Round1MatchOf(id) ==
  CHOOSE i \in RoundMatches(Matches, 1) :
     Matches[i].participant1 = id \/ Matches[i].participant2 = id

(* C11: in seeded mode every round-1 match holds the participant ranked s *)
(* in slot 1 and the one ranked bracketSize-1-s in slot 2 for some seed s  *)
(* (a rank >= n being an empty slot), rank 0 is in a match with rank       *)
(* bracketSize-1, and ranks 0 and 1 are in opposite halves of round 1      *)
C11_SeededPairing ==
  (Assigned /\ tournament.seedingMode = "seeded") =>
    LET n == Len(tournament.participants)
        bracketSize == BracketSizeFor(n)
        r1 == RoundMatches(Matches, 1)
    IN /\ \A i \in r1 : \E s \in 0..(bracketSize - 1) :
             /\ Matches[i].participant1 = Ranked(s)
             /\ Matches[i].participant2 = Ranked(bracketSize - 1 - s)
       /\ \E i \in r1 : /\ Matches[i].participant1 = Ranked(0)
                         /\ Matches[i].participant2 = Ranked(bracketSize - 1)
       /\ bracketSize >= 4 =>
             LET a == Matches[Round1MatchOf(Ranked(0))].position
                 b == Matches[Round1MatchOf(Ranked(1))].position
                 half == bracketSize \div 4
             IN (a <= half) # (b <= half)

(* C12: in random mode the matches of round 1 at positions 1..floor(n/2)  *)
(* have two occupants, the next one has one occupant (in slot 1) when n is *)
(* odd, and the remaining bracketSize/2 - ceil(n/2) are empty              *)
C12_RandomSequentialFill ==
  (Assigned /\ tournament.seedingMode = "random") =>
    LET n == Len(tournament.participants)
        r1 == RoundMatches(Matches, 1)
        full == {i \in r1 : IsFull(Matches[i])}
        single == {i \in r1 : IsSingle(Matches[i])}
        empty == {i \in r1 : ~IsActive(Matches[i])}
    IN /\ Cardinality(full) = n \div 2
       /\ Cardinality(single) = n % 2
       /\ Cardinality(empty) = BracketSizeFor(n) \div 2 - (n + 1) \div 2
       /\ \A i \in full : Matches[i].position <= n \div 2
       /\ \A i \in single : /\ Matches[i].position = n \div 2 + 1
                              /\ HasP1(Matches[i])
       /\ (n = BracketSizeFor(n)) => single = {}

C12_Witness ==
  /\ Assigned
  /\ tournament.seedingMode = "random"
  /\ Len(tournament.participants) = 5
  /\ \E i \in RoundMatches(Matches, 1) : IsSingle(Matches[i])
  /\ \E i \in RoundMatches(Matches, 1) : ~IsActive(Matches[i])

(* a match list has the shape of a bracket for n >= 2 entrants: size      *)
(* bracketSize - 1, round r holding the positions 1..2^(rounds-r) once each *)
BracketShape(ms, n) ==
  LET rounds == RoundsFor(n)
  IN /\ Len(ms) = BracketSizeFor(n) - 1
     /\ \A i \in DOMAIN ms : ms[i].round \in 1..rounds
     /\ \A r \in 1..rounds :
          /\ Cardinality({i \in DOMAIN ms : ms[i].round = r}) = Pow2(rounds - r)
          /\ {ms[i].position : i \in {k \in DOMAIN ms : ms[k].round = r}}
                = 1..Pow2(rounds - r)
     /\ Cardinality({i \in DOMAIN ms : ms[i].round = rounds}) = 1

(* C13: for n < 2 the builder and the seeder give no match and totalRounds *)
(* 0; for n >= 2 the builder gives a bracket of bracketSize - 1 matches,   *)
(* all slots empty, scores 0, no winner, and the seeder keeps that shape   *)
C13_BracketStructure ==
  LET n == Len(tournament.participants)
      built == generateMatchStructure(n)
  IN /\ n < 2 => /\ built = <<>>
                 /\ op.name = "assignParticipantsToMatches" =>
                       (Matches = <<>> /\ tournament.totalRounds = 0)
     /\ n >= 2 =>
          /\ BracketShape(built, n)
          /\ \A i \in DOMAIN built :
                /\ built[i].participant1 = NoOne /\ built[i].participant2 = NoOne
                /\ built[i].participant1Score = 0 /\ built[i].participant2Score = 0
                /\ built[i].winner = NoOne
          /\ Assigned => BracketShape(Matches, n)

C13_Witness ==
  /\ Assigned
  /\ Len(tournament.participants) = 4
  /\ Len(Matches) = 3

(* C14: after seeding n >= 2 participants every match of a round beyond 1 *)
(* has both slots empty, no match has a winner, currentRound is 1 and      *)
(* totalRounds is ceil(log2 n)                                             *)
C14_SeedingTouchesRoundOne ==
  Assigned =>
    /\ \A i \in DOMAIN Matches :
          /\ Matches[i].round > 1 => ~IsActive(Matches[i])
          /\ Matches[i].winner = NoOne
    /\ tournament.currentRound = 1
    /\ tournament.totalRounds = RoundsFor(Len(tournament.participants))

C14_Witness ==
  /\ Assigned
  /\ tournament.totalRounds = 3
  /\ \E i \in RoundMatches(Matches, 1) : IsSingle(Matches[i])

(* the two-occupant matches of the bracket *)
FullMatches == {i \in DOMAIN Matches : IsFull(Matches[i])}

(* C15: in lower_score mode a two-occupant match whose scores are both 0  *)
(* or equal has no winner; with one score 0 and the other positive the     *)
(* side with the positive score wins; otherwise the strictly lower wins    *)
C15_LowerScoreZeroUnfinished ==
  tournament.scoringMode = "lower_score" =>
    \A i \in FullMatches :
       LET m == Matches[i]
           s1 == m.participant1Score
           s2 == m.participant2Score
       IN /\ (s1 = 0 /\ s2 = 0) => m.winner = NoOne
          /\ (s1 = s2) => m.winner = NoOne
          /\ (s1 = 0 /\ s2 > 0) => m.winner = m.participant2
          /\ (s2 = 0 /\ s1 > 0) => m.winner = m.participant1
          /\ (s1 > 0 /\ s2 > 0 /\ s1 < s2) => m.winner = m.participant1
          /\ (s1 > 0 /\ s2 > 0 /\ s2 < s1) => m.winner = m.participant2

C15_Witness ==
  /\ tournament.scoringMode = "lower_score"
  /\ op.name = "determineWinner"
  /\ \E i \in FullMatches :
        /\ Matches[i].participant1Score = 0
        /\ Matches[i].participant2Score = MaxScore
        /\ Matches[i].winner = Matches[i].participant2

(* C16 as stated: in lower_score mode, when exactly one score of a        *)
(* two-occupant match is 0, the side that scored 0 is the winner           *)
C16_ZeroSideWins ==
  tournament.scoringMode = "lower_score" =>
    \A i \in FullMatches :
       /\ (Matches[i].participant1Score = 0 /\ Matches[i].participant2Score > 0)
             => Matches[i].winner = Matches[i].participant1
       /\ (Matches[i].participant2Score = 0 /\ Matches[i].participant1Score > 0)
             => Matches[i].winner = Matches[i].participant2

(* C16 amended: in lower_score mode, when exactly one score of a          *)
(* two-occupant match is 0, the side that scored 0 is treated as not       *)
(* finished and the other side is the winner                               *)
C16_NonzeroSideWins ==
  tournament.scoringMode = "lower_score" =>
    \A i \in FullMatches :
       (Matches[i].participant1Score = 0) # (Matches[i].participant2Score = 0) =>
          /\ Matches[i].winner # NoOne
          /\ Matches[i].winner =
               (IF Matches[i].participant1Score = 0
                THEN Matches[i].participant2 ELSE Matches[i].participant1)

C16_Witness ==
  /\ tournament.scoringMode = "lower_score"
  /\ op.name = "determineWinner"
  /\ \E i \in FullMatches :
        /\ Matches[i].participant1Score > 0
        /\ Matches[i].participant2Score = 0
        /\ Matches[i].winner = Matches[i].participant1

(* C17: in best_of mode with a target, a two-occupant match has a winner  *)
(* exactly when a score reaches the target, and the winner's own score     *)
(* reaches it; without a target the strictly higher score wins and equal   *)
(* scores give no winner                                                   *)
C17_BestOfTarget ==
  tournament.scoringMode = "best_of" =>
    \A i \in FullMatches :
       LET m == Matches[i]
           s1 == m.participant1Score
           s2 == m.participant2Score
           target == tournament.targetScore
       IN IF target > 0
          THEN /\ (s1 < target /\ s2 < target) => m.winner = NoOne
               /\ (s1 >= target \/ s2 >= target) => m.winner # NoOne
               /\ m.winner = m.participant1 => s1 >= target
               /\ m.winner = m.participant2 => s2 >= target
          ELSE /\ s1 = s2 => m.winner = NoOne
               /\ s1 > s2 => m.winner = m.participant1
               /\ s2 > s1 => m.winner = m.participant2

C17_Witness ==
  /\ tournament.scoringMode = "best_of"
  /\ op.name = "determineWinner"
  /\ \E i \in FullMatches :
        /\ Matches[i].participant1Score < tournament.targetScore
        /\ Matches[i].participant2Score = tournament.targetScore
        /\ Matches[i].winner = Matches[i].participant2

(* C18: currentRound never exceeds totalRounds; while the tournament stays *)
(* started currentRound never decreases; a successful finalization of the  *)
(* current round, when it is not the last, adds exactly 1 to currentRound  *)
C18_CurrentRoundBoundedMonotone ==
  [][/\ tournament.currentRound <= tournament.totalRounds
     /\ tournament'.currentRound <= tournament'.totalRounds
     /\ (tournament.isStarted /\ tournament'.isStarted) =>
           tournament'.currentRound >= tournament.currentRound
     /\ (/\ op'.name = "finalizeRound" /\ op'.ret
         /\ op'.round = tournament.currentRound
         /\ op'.round < tournament.totalRounds) =>
           tournament'.currentRound = tournament.currentRound + 1]_vars

(* C18 amended: in every state of a started tournament currentRound does *)
(* not exceed totalRounds; while the tournament stays started currentRound *)
(* never decreases; a successful finalization of the current round, when   *)
(* it is not the last, adds exactly 1 to currentRound                      *)
C18_StartedCurrentRound ==
  [][/\ tournament.isStarted => tournament.currentRound <= tournament.totalRounds
     /\ tournament'.isStarted => tournament'.currentRound <= tournament'.totalRounds
     /\ (tournament.isStarted /\ tournament'.isStarted) =>
           tournament'.currentRound >= tournament.currentRound
     /\ (/\ op'.name = "finalizeRound" /\ op'.ret
         /\ op'.round = tournament.currentRound
         /\ op'.round < tournament.totalRounds) =>
           tournament'.currentRound = tournament.currentRound + 1]_vars

C18_Witness ==
  /\ tournament.isStarted
  /\ op.name = "finalizeRound" /\ op.ret /\ op.round = 1
  /\ tournament.totalRounds = 2
  /\ tournament.currentRound = 2

(* C19: finalizedRounds holds no round twice; a round enters it only by a *)
(* finalize call for that round made when every two-occupant match of the  *)
(* round had a winner; finalizing the last round changes no match          *)
C19_FinalizedRoundsRecorded ==
  [][/\ \A a, b \in DOMAIN tournament'.finalizedRounds :
          a # b => tournament'.finalizedRounds[a] # tournament'.finalizedRounds[b]
     /\ \A r \in Range(tournament'.finalizedRounds) \ Range(tournament.finalizedRounds) :
          /\ op'.name = "finalizeRound" /\ op'.round = r /\ op'.ret
          /\ tournament'.finalizedRounds = Append(tournament.finalizedRounds, r)
          /\ \A i \in RoundMatches(tournament.matches, r) :
                IsFull(tournament.matches[i]) => tournament.matches[i].winner # NoOne
     /\ (/\ op'.name = "finalizeRound" /\ op'.ret
         /\ op'.round = tournament.totalRounds) =>
           tournament'.matches = tournament.matches]_vars

C19_Witness ==
  /\ op.name = "finalizeRound" /\ op.ret
  /\ op.round = tournament.totalRounds
  /\ tournament.finalizedRounds = <<1, 2>>

(* C20: totalRounds is ceil(log2(number of participants)), 0 with fewer   *)
(* than 2 participants, in every state of the record                       *)
C20_TotalRoundsFromRoster ==
  tournament.totalRounds =
    (IF Len(tournament.participants) < 2 THEN 0
     ELSE RoundsFor(Len(tournament.participants)))

(* C30: in best_of mode with a target, a two-occupant match whose scores  *)
(* both reach the target is won by slot 1 whichever score is higher; slot  *)
(* 2 is the winner exactly when slot 1's score is below the target and     *)
(* slot 2's is not                                                         *)
C30_BestOfSlotOneFirst ==
  (tournament.scoringMode = "best_of" /\ tournament.targetScore > 0) =>
    \A i \in FullMatches :
       LET m == Matches[i]
           target == tournament.targetScore
       IN /\ (m.participant1Score >= target /\ m.participant2Score >= target)
               => m.winner = m.participant1
          /\ (m.winner = m.participant2)
               <=> (m.participant1Score < target /\ m.participant2Score >= target)

C30_Witness ==
  /\ tournament.scoringMode = "best_of"
  /\ op.name = "determineWinner"
  /\ \E i \in FullMatches :
        /\ tournament.targetScore > 0
        /\ Matches[i].participant1Score >= tournament.targetScore
        /\ Matches[i].participant2Score > Matches[i].participant1Score
        /\ Matches[i].winner = Matches[i].participant1

(* C21: a match that has a winner has it in slot 1 or slot 2; scoring     *)
(* gives no winner to a match with an empty slot; such a match gains a     *)
(* winner only in a successful finalization of its round                   *)
C21_WinnerIsOccupant ==
  [][/\ \A i \in DOMAIN tournament'.matches :
          tournament'.matches[i].winner # NoOne =>
             tournament'.matches[i].winner \in
               {tournament'.matches[i].participant1,
                tournament'.matches[i].participant2}
     /\ op'.name \in {"determineWinner", "updateMatch"} =>
          \A i \in DOMAIN tournament.matches \cap DOMAIN tournament'.matches :
             ~IsFull(tournament.matches[i]) =>
                tournament'.matches[i].winner \in
                  {NoOne, tournament.matches[i].winner}
     /\ \A i \in DOMAIN tournament.matches \cap DOMAIN tournament'.matches :
          (/\ ~IsFull(tournament'.matches[i])
           /\ tournament'.matches[i].winner # NoOne
           /\ tournament.matches[i].winner = NoOne) =>
             /\ op'.name = "finalizeRound" /\ op'.ret
             /\ op'.round = tournament.matches[i].round]_vars

C21_Witness ==
  /\ op.name = "updateMatch"
  /\ \E i \in DOMAIN Matches :
        /\ IsSingle(Matches[i])
        /\ Matches[i].participant1Score > Matches[i].participant2Score
        /\ Matches[i].winner = NoOne
  /\ \E i \in FullMatches : Matches[i].winner # NoOne

(* C26: a score entry on a match with an empty slot changes nothing: the   *)
(* two scores and the winner of the match and the gamePoints of every      *)
(* participant are what they were                                          *)
C26_EmptySlotScoreIsNoOp ==
  [][(op'.name = "updateMatch" /\ ~IsFull(tournament.matches[op'.match])) =>
       /\ tournament'.matches[op'.match].participant1Score =
            tournament.matches[op'.match].participant1Score
       /\ tournament'.matches[op'.match].participant2Score =
            tournament.matches[op'.match].participant2Score
       /\ tournament'.matches[op'.match].winner =
            tournament.matches[op'.match].winner
       /\ \A k \in DOMAIN tournament.participants :
            tournament'.participants[k].gamePoints =
              tournament.participants[k].gamePoints]_vars

(* C22: resetTournament leaves no match and no finalized round, a record   *)
(* that is not started, totalRounds as the roster's size gives it, every   *)
(* gamePoints at 0, and the roster's ids and names in the order they had   *)
C22_ResetRecord ==
  [][op'.name = "resetTournament" =>
       /\ tournament'.matches = <<>>
       /\ tournament'.totalRounds = RoundsFor(Len(tournament'.participants))
       /\ tournament'.finalizedRounds = <<>>
       /\ ~tournament'.isStarted
       /\ Len(tournament'.participants) = Len(tournament.participants)
       /\ \A k \in DOMAIN tournament.participants :
            /\ tournament'.participants[k].gamePoints = 0
            /\ tournament'.participants[k].id = tournament.participants[k].id
            /\ tournament'.participants[k].name = tournament.participants[k].name]_vars

(* the same without the statement on totalRounds *)
C22_ResetRecordButRounds ==
  [][op'.name = "resetTournament" =>
       /\ tournament'.matches = <<>>
       /\ tournament'.finalizedRounds = <<>>
       /\ ~tournament'.isStarted
       /\ Len(tournament'.participants) = Len(tournament.participants)
       /\ \A k \in DOMAIN tournament.participants :
            /\ tournament'.participants[k].gamePoints = 0
            /\ tournament'.participants[k].id = tournament.participants[k].id
            /\ tournament'.participants[k].name = tournament.participants[k].name]_vars

(* the slots of a round that hold a participant, as <<match index, slot>> *)
RoundSlots(round) ==
  {<<i, 1>> : i \in {k \in RoundMatches(Matches, round) : HasP1(Matches[k])}}
  \cup {<<i, 2>> : i \in {k \in RoundMatches(Matches, round) : HasP2(Matches[k])}}

(* C29: in every round the occupied slots hold pairwise distinct          *)
(* participants                                                            *)
C29_OneSlotPerRound ==
  \A round \in 1..tournament.totalRounds :
     \A a \in RoundSlots(round), b \in RoundSlots(round) :
        a # b => SlotOccupant(a) # SlotOccupant(b)

(* a wild card sits next to an advanced participant after a finalization *)
C29_Witness ==
  /\ op.name = "finalizeRound" /\ op.ret
  /\ op.round \in Range(tournament.finalizedRounds)
  /\ plays = MaxPlays
  /\ \E i \in DOMAIN Matches :
        /\ IsFull(Matches[i])
        /\ Matches[i].wildCardParticipant1 \/ Matches[i].wildCardParticipant2

(* the number of finalized rounds *)
FinalizedCount == Cardinality(Range(tournament.finalizedRounds))

(* C28: the finalized rounds of a started tournament are 1..k for some k   *)
(* up to totalRounds, currentRound is min(k+1, totalRounds), and a round   *)
(* beyond the first is finalized only when the round before it has been    *)
C28_FinalizedInOrder ==
  [][/\ tournament'.isStarted =>
          /\ Range(tournament'.finalizedRounds) =
               1..Cardinality(Range(tournament'.finalizedRounds))
          /\ Cardinality(Range(tournament'.finalizedRounds))
               <= tournament'.totalRounds
          /\ tournament'.currentRound =
               IF Cardinality(Range(tournament'.finalizedRounds)) + 1
                    <= tournament'.totalRounds
               THEN Cardinality(Range(tournament'.finalizedRounds)) + 1
               ELSE tournament'.totalRounds
     /\ (op'.name = "finalizeRound" /\ op'.ret /\ op'.round > 1) =>
          (op'.round - 1) \in Range(tournament.finalizedRounds)]_vars

C28_Witness ==
  /\ op.name = "finalizeRound" /\ op.ret
  /\ op.round = 2
  /\ tournament.totalRounds > 2
  /\ FinalizedCount = 2
  /\ tournament.currentRound = 3

FedByWinners(t, j) ==
  LET feeder(slot) ==
        CHOOSE i \in DOMAIN t.matches :
           /\ t.matches[i].round = t.matches[j].round - 1
           /\ t.matches[i].position = 2 * t.matches[j].position - (2 - slot)
  IN /\ (t.matches[j].participant1 # NoOne /\ ~t.matches[j].wildCardParticipant1)
          => t.matches[j].participant1 = t.matches[feeder(1)].winner
     /\ (t.matches[j].participant2 # NoOne /\ ~t.matches[j].wildCardParticipant2)
          => t.matches[j].participant2 = t.matches[feeder(2)].winner

AllFedByWinners(t) ==
  \A j \in DOMAIN t.matches : t.matches[j].round > 1 => FedByWinners(t, j)

(* the step is a score entry that changes the winner of a match of a round *)
(* already finalized                                                       *)
RescoredFinalized ==
  /\ op'.name = "playMatch"
  /\ \E i \in DOMAIN tournament.matches :
        /\ tournament.matches[i].round \in Range(tournament.finalizedRounds)
        /\ tournament'.matches[i].winner # tournament.matches[i].winner

ParticipantIds(t) == {t.participants[k].id : k \in DOMAIN t.participants}

(* C23: on a started tournament addParticipant, removeParticipant,         *)
(* updateTournamentSettings and startTournament change neither the         *)
(* participant ids, the matches, scoringMode nor targetScore and write     *)
(* nothing to the store; startTournament does the same on a roster of      *)
(* fewer than 2                                                            *)
C23_LockedWhileStarted ==
  [][((/\ tournament.isStarted
       /\ op'.name \in {"addParticipant", "removeParticipant",
                        "updateTournamentSettings", "startTournament"})
      \/ (/\ op'.name = "startTournament"
          /\ Len(tournament.participants) < 2)) =>
        /\ ParticipantIds(tournament') = ParticipantIds(tournament)
        /\ tournament'.matches = tournament.matches
        /\ tournament'.scoringMode = tournament.scoringMode
        /\ tournament'.targetScore = tournament.targetScore
        /\ tournament'.isStarted = tournament.isStarted
        /\ ~op'.wrote]_vars

(* a removal was asked of a started tournament that has been played on *)
C23_Witness ==
  /\ tournament.isStarted
  /\ op.name = "removeParticipant"
  /\ ~op.wrote
  /\ plays > 0
  /\ Len(tournament.participants) >= 3

(* C24: a stored record that is started stays started through every       *)
(* request of every client but resetTournament                             *)
C24_StartedUntilReset ==
  [][(tournament.isStarted /\ op'.name # "resetTournament")
       => tournament'.isStarted]_vars

(* C24 as amended: a stored record that is started stays started through   *)
(* every request, other than resetTournament, whose GET returned a started *)
(* record                                                                  *)
C24_StartedUnlessStaleWrite ==
  [][(/\ tournament.isStarted
      /\ plays' = plays + 1
      /\ op'.name # "resetTournament"
      /\ clients[op'.client].read.isStarted) => tournament'.isStarted]_vars

(* a rename was written to a started record by a client while the other    *)
(* had a request under way                                                 *)
C24_Witness ==
  /\ tournament.isStarted
  /\ op.name = "updateParticipant" /\ op.wrote
  /\ plays = MaxPlays
  /\ \E c \in Clients : clients[c].pc = "read" /\ clients[c].read # tournament

(* C25: a score entry is answered without an error and leaves in the store *)
(* the scores it named on its match and, on every other match, what its    *)
(* caller had read: what another caller stored in between is gone          *)
C25_LastWriteWins ==
  [][(plays' = plays + 1 /\ op'.name = "updateMatch" /\ ~op'.error) =>
       /\ op'.wrote
       /\ tournament'.matches[op'.match].participant1Score = op'.p1Score
       /\ tournament'.matches[op'.match].participant2Score = op'.p2Score
       /\ \A k \in DOMAIN tournament'.matches \ {op'.match} :
             tournament'.matches[k] = clients[op'.client].read.matches[k]]_vars

(* two callers scored different matches, both after reading the same       *)
(* record: the store holds the scores of the second and not those of the   *)
(* first, and neither got an error                                         *)
C25_Witness ==
  /\ op.name = "updateMatch" /\ ~op.error
  /\ plays = 2
  /\ \E a \in Clients \ {op.client} :
        /\ clients[a].last.name = "updateMatch"
        /\ ~clients[a].last.error
        /\ clients[a].last.match # op.match
        /\ clients[a].last.p1Score > 0
        /\ Matches[clients[a].last.match].participant1Score = 0
        /\ Matches[clients[a].last.match].participant2Score = 0
        /\ Matches[clients[a].last.match].winner = NoOne
  /\ op.p1Score > 0
  /\ Matches[op.match].participant1Score = op.p1Score
  /\ Matches[op.match].participant2Score = op.p2Score

====
